---- MODULE Spec2Model ----
(***************************************************************************)
(* Model of the user hooks of the Voyager keymap src/eZrPW/keymap.c: the   *)
(* three tap dances, the per-layer RGB overlay, process_record_user and    *)
(* the two Achordion streak callbacks.  The firmware framework calls each  *)
(* hook at its own points; every hook is one action here, and the          *)
(* framework state a hook reads is an input of the action.                 *)
(***************************************************************************)
EXTENDS Integers, Sequences, FiniteSets, TLC

VARIABLES
  dance_state,   \* static tap dance_state[3]                    (keymap.c:131)
  td,            \* the framework's tap_dance_state_t of each dance
  registered,    \* keycodes registered (register_code16) and not yet unregistered
  emitted,       \* per dance: base-keycode emissions of the running cycle
  calls,         \* the keycode calls made by the last tap-dance callback
  last,          \* which tap-dance callback ran last, on which step and count
  rgb_control,   \* rawhid_state.rgb_control
  disable_layer_led, \* keyboard_config.disable_layer_led
  layer_state,   \* the framework's layer bit mask
  rgb_flags,     \* rgb_matrix_get_flags()
  rgb_val,       \* rgb_matrix_config.hsv.v
  led,           \* the LED colour buffer rgb_matrix_set_color writes
  writes,        \* the LED writes of the last rgb_matrix_indicators_user call
  rgb_ret,       \* its return value ("none": not called since the last change)
  rgblight,      \* the rgblight mode rgblight_mode sets
  rec,           \* the last process_record_user call and its result
  no_gui,        \* keymap_config.no_gui, read by mod_config
  ach            \* the last Achordion callback call and its result

varsDance == <<dance_state, td, registered, emitted, calls, last>>
varsRgb   == <<rgb_control, disable_layer_led, layer_state, rgb_flags, rgb_val,
               led, writes, rgb_ret>>
varsRec   == <<rgblight, rec>>
varsAch   == <<no_gui, ach>>
vars      == <<varsDance, varsRgb, varsRec, varsAch>>

-----------------------------------------------------------------------------
(* Bounds of the model *)

\* most presses of one tap dance before it finishes
MaxCount == 5
\* layer_state ranges over the masks of this many layers (the keymap has 3)
NumLayerBits == 4
\* rgblight modes the RGB_MODE_FORWARD key cycles through
NumModes == 5

-----------------------------------------------------------------------------
(* Keycodes and modifier encodings used by the keymap *)

KC_A       == 4
KC_Z       == 29
KC_SPACE   == 44
KC_BSLS    == 49
KC_SCLN    == 51
KC_QUOTE   == 52
KC_GRAVE   == 53
KC_COMMA   == 54
KC_DOT     == 55
\* S(kc) == QK_LSFT | kc, QK_LSFT == 0x0200
KC_EXLM    == 542
KC_AT      == 543
KC_DLR     == 545
KC_PIPE    == 561
KC_DQUO    == 564
KC_TILD    == 565
KC_QUES    == 568
\* keycode ranges
QK_MOD_TAP       == 8192
QK_MOD_TAP_MAX   == 16383
QK_LAYER_TAP     == 16384
QK_LAYER_TAP_MAX == 20479
SAFE_RANGE       == 32320
\* 5-bit mod-tap modifiers: bit 0x10 is the right-hand flag
MOD_LCTL == 1
MOD_LSFT == 2
MOD_LALT == 4
MOD_LGUI == 8
MOD_RCTL == 17
MOD_RSFT == 18
MOD_RALT == 20
MOD_RGUI == 24
\* 8-bit modifier state of get_mods(): MOD_MASK_CG = both Ctrl and both GUI bits
MOD_MASK_CG  == 153
MOD_BIT_LALT == 4

RECURSIVE BitAnd(_, _)
BitAnd(a, b) ==
  IF a = 0 \/ b = 0 THEN 0
  ELSE (a % 2) * (b % 2) + 2 * BitAnd(a \div 2, b \div 2)

BitOr(a, b) == a + b - BitAnd(a, b)

MT(mod, kc) == QK_MOD_TAP + (BitAnd(mod, 31) * 256) + BitAnd(kc, 255)
LT(layer, kc) == QK_LAYER_TAP + (BitAnd(layer, 15) * 256) + BitAnd(kc, 255)

-----------------------------------------------------------------------------
(* Tap dances, keymap.c:117-258 *)

SINGLE_TAP        == 1
SINGLE_HOLD       == 2
DOUBLE_TAP        == 3
DOUBLE_HOLD       == 4
DOUBLE_SINGLE_TAP == 5
MORE_TAPS         == 6

Dances == 0 .. 2

\* the keycodes tap_dance_actions binds to each dance's callbacks
Base(j)    == CASE j = 0 -> KC_BSLS  [] j = 1 -> KC_QUOTE [] j = 2 -> KC_GRAVE
Shifted(j) == CASE j = 0 -> KC_PIPE  [] j = 1 -> KC_DQUO  [] j = 2 -> KC_TILD

Tap(kc)   == <<"tap", kc>>
Reg(kc)   == <<"register", kc>>
Unreg(kc) == <<"unregister", kc>>

\* register_code16 puts a keycode down (a key that is down already stays down
\* once), unregister_code16 lifts it, tap_code16 is a register and an unregister
RECURSIVE ApplyCalls(_, _)
ApplyCalls(reg, cs) ==
  IF cs = <<>> THEN reg
  ELSE LET c == Head(cs)
           r == IF c[1] = "register" THEN reg \cup {c[2]} ELSE reg \ {c[2]}
       IN ApplyCalls(r, Tail(cs))

\* tap_code16 and register_code16 calls on keycode kc among cs
RECURSIVE Emissions(_, _)
Emissions(cs, kc) ==
  IF cs = <<>> THEN 0
  ELSE (IF Head(cs)[1] \in {"tap", "register"} /\ Head(cs)[2] = kc THEN 1 ELSE 0)
       + Emissions(Tail(cs), kc)

tdZero == [count |-> 0, interrupted |-> FALSE, pressed |-> FALSE, finished |-> FALSE]

dance_step_swapped(state) ==
  IF state.count = 1 THEN
    IF state.interrupted \/ ~state.pressed THEN SINGLE_TAP ELSE SINGLE_HOLD
  ELSE IF state.count = 2 THEN
    IF state.pressed THEN DOUBLE_HOLD
    ELSE IF state.interrupted THEN DOUBLE_SINGLE_TAP
    ELSE DOUBLE_TAP
  ELSE MORE_TAPS

dance_step(state) ==
  IF state.count = 1 THEN
    IF state.interrupted \/ ~state.pressed THEN SINGLE_TAP ELSE SINGLE_HOLD
  ELSE IF state.count = 2 THEN
    IF state.interrupted THEN DOUBLE_SINGLE_TAP
    ELSE IF state.pressed THEN DOUBLE_HOLD
    ELSE DOUBLE_TAP
  ELSE MORE_TAPS

on_dance_calls_ge3(count, base) ==
  (IF count = 3 THEN <<Tap(base), Tap(base), Tap(base)>> ELSE <<>>)
  \o (IF count >= 3 THEN <<Tap(base)>> ELSE <<>>)

\* the body of on_dance_N: two independent ifs on state->count
on_dance_calls(count, base) ==
  (IF count = 3 THEN <<Tap(base), Tap(base), Tap(base)>> ELSE <<>>)
  \o (IF count > 3 THEN <<Tap(base)>> ELSE <<>>)

finished_calls_hold_registers(step, base, shifted) ==
  CASE step = SINGLE_TAP        -> <<Reg(base)>>
    [] step = SINGLE_HOLD       -> <<Reg(base)>>
    [] step = DOUBLE_TAP        -> <<Reg(base), Reg(base)>>
    [] step = DOUBLE_HOLD       -> <<Reg(shifted)>>
    [] step = DOUBLE_SINGLE_TAP -> <<Tap(base), Reg(base)>>
    [] OTHER                    -> <<>>

\* the switch of dance_N_finished
finished_calls(step, base, shifted) ==
  CASE step = SINGLE_TAP        -> <<Reg(base)>>
    [] step = DOUBLE_TAP        -> <<Reg(base), Reg(base)>>
    [] step = DOUBLE_HOLD       -> <<Reg(shifted)>>
    [] step = DOUBLE_SINGLE_TAP -> <<Tap(base), Reg(base)>>
    [] OTHER                    -> <<>>

reset_calls_no_double_tap(step, base, shifted) ==
  CASE step = SINGLE_TAP        -> <<Unreg(base)>>
    [] step = DOUBLE_HOLD       -> <<Unreg(shifted)>>
    [] step = DOUBLE_SINGLE_TAP -> <<Unreg(base)>>
    [] OTHER                    -> <<>>

\* the switch of dance_N_reset
reset_calls(step, base, shifted) ==
  CASE step = SINGLE_TAP        -> <<Unreg(base)>>
    [] step = DOUBLE_TAP        -> <<Unreg(base)>>
    [] step = DOUBLE_HOLD       -> <<Unreg(shifted)>>
    [] step = DOUBLE_SINGLE_TAP -> <<Unreg(base)>>
    [] OTHER                    -> <<>>

\* on_dance_N for the dance of tap_dance_actions[j]: the framework counts the
\* press (uint8_t count) and calls the on-each-tap callback
OnDance(j, base) ==
  /\ ~td[j].finished
  /\ td[j].count < MaxCount
  /\ LET count == (td[j].count + 1) % 256
         cs    == on_dance_calls(count, base)
     IN /\ td' = [td EXCEPT ![j].count = count, ![j].pressed = TRUE]
        /\ calls' = cs
        /\ registered' = ApplyCalls(registered, cs)
        /\ emitted' = [emitted EXCEPT ![j] = @ + Emissions(cs, Base(j))]
        /\ last' = [fn |-> "on_dance", dance |-> j, step |-> 0, count |-> count]
  /\ UNCHANGED <<dance_state, varsRgb, varsRec, varsAch>>

\* dance_N_finished for the dance of tap_dance_actions[j], writing
\* dance_state[k]: the framework calls it once per dance, after the last tap,
\* with the interrupted and pressed flags it observed
Finished(j, k, base, shifted) ==
  /\ ~td[j].finished
  /\ td[j].count >= 1
  /\ \E interrupted \in BOOLEAN, pressed \in BOOLEAN :
       LET state == [td[j] EXCEPT !.interrupted = interrupted,
                                  !.pressed = pressed, !.finished = TRUE]
           step  == dance_step(state)
           cs    == finished_calls(step, base, shifted)
       IN /\ td' = [td EXCEPT ![j] = state]
          /\ dance_state' = [dance_state EXCEPT ![k].step = step]
          /\ calls' = cs
          /\ registered' = ApplyCalls(registered, cs)
          /\ emitted' = [emitted EXCEPT ![j] = @ + Emissions(cs, Base(j))]
          /\ last' = [fn |-> "finished", dance |-> j, step |-> step,
                      count |-> state.count]
  /\ UNCHANGED <<varsRgb, varsRec, varsAch>>

\* dance_N_reset for the dance of tap_dance_actions[j], reading and clearing
\* dance_state[k]; the framework then zeroes the dance's tap_dance_state_t
Reset(j, k, base, shifted) ==
  /\ td[j].finished
  /\ LET step == dance_state[k].step
         cs   == reset_calls(step, base, shifted)
     IN /\ calls' = cs
        /\ registered' = ApplyCalls(registered, cs)
        /\ last' = [fn |-> "reset", dance |-> j, step |-> step,
                    count |-> td[j].count]
  /\ dance_state' = [dance_state EXCEPT ![k].step = 0]
  /\ td' = [td EXCEPT ![j] = tdZero]
  /\ emitted' = [emitted EXCEPT ![j] = 0]
  /\ UNCHANGED <<varsRgb, varsRec, varsAch>>

on_dance_0 == OnDance(0, KC_BSLS)
on_dance_1 == OnDance(1, KC_QUOTE)
on_dance_2 == OnDance(2, KC_GRAVE)

dance_0_finished == Finished(0, 0, KC_BSLS, KC_PIPE)
dance_1_finished == Finished(1, 1, KC_QUOTE, KC_DQUO)
dance_2_finished == Finished(2, 2, KC_GRAVE, KC_TILD)

dance_0_reset == Reset(0, 0, KC_BSLS, KC_PIPE)
dance_1_reset_state_0 == Reset(1, 0, KC_QUOTE, KC_DQUO)
dance_1_reset == Reset(1, 1, KC_QUOTE, KC_DQUO)
dance_2_reset == Reset(2, 2, KC_GRAVE, KC_TILD)

InitDance ==
  /\ dance_state = [j \in Dances |-> [is_press_action |-> FALSE, step |-> 0]]
  /\ td = [j \in Dances |-> tdZero]
  /\ registered = {}
  /\ emitted = [j \in Dances |-> 0]
  /\ calls = <<>>
  /\ last = [fn |-> "none", dance |-> 0, step |-> 0, count |-> 0]

NextDance ==
  \/ on_dance_0 \/ dance_0_finished \/ dance_0_reset
  \/ on_dance_1 \/ dance_1_finished \/ dance_1_reset
  \/ on_dance_2 \/ dance_2_finished \/ dance_2_reset

-----------------------------------------------------------------------------
(* Per-layer RGB overlay, keymap.c:56-98 *)

RGB_MATRIX_LED_COUNT == 52
LED_FLAG_NONE == 0

Leds == 0 .. RGB_MATRIX_LED_COUNT - 1
Black == <<0, 0, 0>>

\* ledmap[1] and ledmap[2]: one {h, s, v} per LED (LED i is element i + 1)
ledmap_1 ==
  <<
     <<0,0,0>>, <<36,249,255>>, <<36,249,255>>, <<36,249,255>>, <<36,249,255>>, <<36,249,255>>,
     <<0,0,0>>, <<0,168,171>>, <<0,168,171>>, <<0,168,171>>, <<0,168,171>>, <<0,168,171>>,
     <<0,0,0>>, <<0,0,0>>, <<0,0,0>>, <<0,0,0>>, <<0,0,0>>, <<0,0,0>>,
     <<0,0,0>>, <<0,0,0>>, <<0,0,0>>, <<0,0,0>>, <<0,0,0>>, <<0,0,0>>,
     <<0,0,0>>, <<0,0,0>>, <<36,249,255>>, <<36,249,255>>, <<36,249,255>>, <<36,249,255>>,
     <<36,249,255>>, <<0,0,255>>, <<139,218,194>>, <<139,218,194>>, <<139,218,194>>, <<139,218,194>>,
     <<36,249,255>>, <<0,0,0>>, <<0,0,255>>, <<0,0,255>>, <<0,0,255>>, <<0,0,255>>,
     <<36,249,255>>, <<0,0,0>>, <<0,0,255>>, <<139,218,194>>, <<139,218,194>>, <<0,0,255>>,
     <<36,249,255>>, <<0,0,0>>, <<0,0,0>>, <<0,0,0>>
  >>

ledmap_2 ==
  <<
     <<0,0,0>>, <<0,0,0>>, <<0,0,0>>, <<0,0,0>>, <<0,0,0>>, <<0,0,0>>,
     <<0,0,0>>, <<0,168,171>>, <<0,168,171>>, <<0,168,171>>, <<0,168,171>>, <<0,168,171>>,
     <<0,0,0>>, <<0,0,0>>, <<0,0,0>>, <<0,0,0>>, <<0,0,0>>, <<0,0,0>>,
     <<0,0,0>>, <<0,0,0>>, <<0,0,0>>, <<0,0,0>>, <<0,0,0>>, <<0,0,0>>,
     <<0,0,0>>, <<0,0,0>>, <<0,0,0>>, <<0,0,0>>, <<0,0,0>>, <<0,0,0>>,
     <<0,0,0>>, <<0,0,0>>, <<246,227,194>>, <<212,227,194>>, <<212,227,194>>, <<212,227,194>>,
     <<246,227,194>>, <<0,0,0>>, <<246,227,194>>, <<212,227,194>>, <<212,227,194>>, <<212,227,194>>,
     <<246,227,194>>, <<0,0,0>>, <<246,227,194>>, <<212,227,194>>, <<212,227,194>>, <<212,227,194>>,
     <<246,227,194>>, <<0,0,0>>, <<212,227,194>>, <<246,227,194>>
  >>

\* ledmap has the designated rows [1] and [2]; row [0] is zero-initialised
ledmap(layer) ==
  CASE layer = 1 -> ledmap_1
    [] layer = 2 -> ledmap_2
    [] OTHER     -> [i \in 1 .. RGB_MATRIX_LED_COUNT |-> Black]

\* the values the framework's effect, brightness keys and RGB toggle produce
EffectColours    == {Black, <<255, 255, 255>>, <<0, 0, 255>>}
BrightnessLevels == {0, 85, 170, 255}
LedFlags         == {LED_FLAG_NONE, 4, 255}

\* biton32: the index of the highest set bit, 0 for an empty mask
RECURSIVE biton32(_)
biton32(bits) == IF bits <= 1 THEN 0 ELSE 1 + biton32(bits \div 2)

\* the framework's hsv_to_rgb on 8-bit channels (region, remainder, p, q, t)
hsv_to_rgb(hsv) ==
  LET h == hsv[1]
      s == hsv[2]
      v == hsv[3]
      region    == (h * 6) \div 255
      remainder == ((h * 2 - region * 85) * 3) % 256
      p == (v * (255 - s)) \div 256
      q == (v * (255 - ((s * remainder) \div 256))) \div 256
      t == (v * (255 - ((s * (255 - remainder)) \div 256))) \div 256
  IN IF s = 0 THEN <<v, v, v>>
     ELSE CASE region = 0 \/ region = 6 -> <<v, t, p>>
            [] region = 1 -> <<q, v, p>>
            [] region = 2 -> <<p, v, t>>
            [] region = 3 -> <<p, q, v>>
            [] region = 4 -> <<t, p, v>>
            [] OTHER      -> <<v, p, q>>

\* f * c with float f = (float)val / UINT8_MAX, stored in a uint8_t: for every
\* 8-bit val and c the truncated single-precision product is this quotient
scale(val, c) == (val * c) \div 255

layer_pixel(layer, i, val) ==
  LET hsv == ledmap(layer)[i + 1]
  IN IF hsv[1] = 0 /\ hsv[2] = 0 /\ hsv[3] = 0 THEN Black
     ELSE LET rgb == hsv_to_rgb(hsv)
          IN <<scale(val, rgb[1]), scale(val, rgb[2]), scale(val, rgb[3])>>

set_layer_color_skip_black(layer, val) ==
  SelectSeq([k \in 1 .. RGB_MATRIX_LED_COUNT |-> <<k - 1, layer_pixel(layer, k - 1, val)>>],
            LAMBDA w : ledmap(layer)[w[1] + 1] # Black)

\* set_layer_color: the rgb_matrix_set_color calls of the loop, in order
set_layer_color(layer, val) ==
  [k \in 1 .. RGB_MATRIX_LED_COUNT |-> <<k - 1, layer_pixel(layer, k - 1, val)>>]

\* rgb_matrix_set_color_all(0, 0, 0)
set_color_all_black == [k \in 1 .. RGB_MATRIX_LED_COUNT |-> <<k - 1, Black>>]

early_return_rawhid_only == rgb_control

\* the two early returns of rgb_matrix_indicators_user
early_return == rgb_control \/ disable_layer_led

\* the LED buffer after the writes ws: the last write to a LED stands
ApplyWrites(buf, ws) ==
  [i \in Leds |->
     LET ks == {k \in DOMAIN ws : ws[k][1] = i}
     IN IF ks = {} THEN buf[i]
        ELSE ws[CHOOSE k \in ks : \A m \in ks : m <= k][2]]

rgb_matrix_indicators_user ==
  /\ LET layer == biton32(layer_state)
         ws == IF early_return THEN <<>>
               ELSE CASE layer = 1 -> set_layer_color(1, rgb_val)
                      [] layer = 2 -> set_layer_color(2, rgb_val)
                      [] OTHER     -> IF rgb_flags = LED_FLAG_NONE
                                      THEN set_color_all_black ELSE <<>>
     IN /\ writes' = ws
        /\ led' = ApplyWrites(led, ws)
        /\ rgb_ret' = IF early_return THEN "false" ELSE "true"
  /\ UNCHANGED <<rgb_control, disable_layer_led, layer_state, rgb_flags, rgb_val>>
  /\ UNCHANGED <<varsDance, varsRec, varsAch>>

\* what the framework and the host change between two refresh ticks
RgbInputsChanged ==
  /\ writes' = <<>>
  /\ rgb_ret' = "none"
  /\ UNCHANGED <<varsDance, varsRec, varsAch>>

\* LT(1, ..) / LT(2, ..) and the framework's layer functions set layer_state
LayerChange ==
  /\ \E l \in 0 .. (2 ^ NumLayerBits - 1) : layer_state' = l
  /\ RgbInputsChanged
  /\ UNCHANGED <<rgb_control, disable_layer_led, rgb_flags, rgb_val, led>>

\* the TOGGLE_LAYER_COLOR key of layer 1
ToggleLayerColor ==
  /\ disable_layer_led' = ~disable_layer_led
  /\ RgbInputsChanged
  /\ UNCHANGED <<rgb_control, layer_state, rgb_flags, rgb_val, led>>

\* the host takes or releases LED control over raw HID
RawhidRgbControl ==
  /\ rgb_control' = ~rgb_control
  /\ RgbInputsChanged
  /\ UNCHANGED <<disable_layer_led, layer_state, rgb_flags, rgb_val, led>>

\* the RGB_TOG, RGB_VAI and RGB_VAD keys of layer 1
RgbSettings ==
  /\ \E f \in LedFlags, v \in BrightnessLevels : rgb_flags' = f /\ rgb_val' = v
  /\ RgbInputsChanged
  /\ UNCHANGED <<rgb_control, disable_layer_led, layer_state, led>>

\* the framework renders the running effect before it calls the hook
EffectRender ==
  /\ \E c \in EffectColours : led' = [i \in Leds |-> c]
  /\ RgbInputsChanged
  /\ UNCHANGED <<rgb_control, disable_layer_led, layer_state, rgb_flags, rgb_val>>

InitRgb ==
  /\ rgb_control = FALSE
  /\ disable_layer_led = FALSE
  /\ layer_state = 0
  /\ rgb_flags = 255
  /\ rgb_val = 255
  /\ led = [i \in Leds |-> Black]
  /\ writes = <<>>
  /\ rgb_ret = "none"

NextRgb ==
  \/ rgb_matrix_indicators_user
  \/ LayerChange \/ ToggleLayerColor \/ RawhidRgbControl \/ RgbSettings
  \/ EffectRender

-----------------------------------------------------------------------------
(* process_record_user, keymap.c:100-111 *)

RGB_SLD == SAFE_RANGE

\* keycodes of the keymap and their neighbours: RGB_SLD, the next custom
\* keycode, a letter, a mod-tap, a layer-tap, TD(DANCE_0)
RecordKeycodes ==
  {RGB_SLD, RGB_SLD + 1, RGB_SLD - 1, KC_A, MT(MOD_LCTL, KC_A), LT(1, 41), 22272}

process_record_user_any_event(keycode, pressed, achordion) ==
  IF ~achordion THEN [ret |-> FALSE, mode_calls |-> <<>>]
  ELSE IF keycode = RGB_SLD
       THEN [ret |-> FALSE, mode_calls |-> <<1>>]
       ELSE [ret |-> TRUE, mode_calls |-> <<>>]

\* process_record_user: achordion is what process_achordion(keycode, record)
\* returned; mode_calls are the arguments of the rgblight_mode calls made
process_record_user(keycode, pressed, achordion) ==
  IF ~achordion THEN [ret |-> FALSE, mode_calls |-> <<>>]
  ELSE IF keycode = RGB_SLD
       THEN [ret |-> FALSE, mode_calls |-> IF pressed THEN <<1>> ELSE <<>>]
       ELSE [ret |-> TRUE, mode_calls |-> <<>>]

ProcessRecordUser ==
  /\ \E keycode \in RecordKeycodes, pressed \in BOOLEAN, achordion \in BOOLEAN :
       LET r == process_record_user(keycode, pressed, achordion)
       IN /\ rgblight' = IF r.mode_calls = <<>> THEN rgblight
                         ELSE r.mode_calls[Len(r.mode_calls)]
          /\ rec' = [fn |-> "process_record_user", keycode |-> keycode,
                     pressed |-> pressed, achordion |-> achordion,
                     ret |-> r.ret, mode_calls |-> r.mode_calls,
                     before |-> rgblight, after |-> rgblight']
  /\ UNCHANGED <<varsDance, varsRgb, varsAch>>

\* the RGB_MODE_FORWARD key of layer 1, handled by the framework
RgbModeForward ==
  /\ rgblight' = (rgblight % NumModes) + 1
  /\ UNCHANGED <<rec, varsDance, varsRgb, varsAch>>

InitRec ==
  /\ rgblight = 1
  /\ rec = [fn |-> "none", keycode |-> 0, pressed |-> FALSE, achordion |-> FALSE,
            ret |-> FALSE, mode_calls |-> <<>>, before |-> 1, after |-> 1]

NextRec == ProcessRecordUser \/ RgbModeForward

-----------------------------------------------------------------------------
(* Achordion streak callbacks, keymap.c:260-299 *)

IS_QK_MOD_TAP(kc)   == kc >= QK_MOD_TAP /\ kc <= QK_MOD_TAP_MAX
IS_QK_LAYER_TAP(kc) == kc >= QK_LAYER_TAP /\ kc <= QK_LAYER_TAP_MAX

QK_MOD_TAP_GET_MODS(kc)          == BitAnd(kc \div 256, 31)
QK_MOD_TAP_GET_TAP_KEYCODE(kc)   == BitAnd(kc, 255)
QK_LAYER_TAP_GET_TAP_KEYCODE(kc) == BitAnd(kc, 255)

\* the framework's mod_config on 5-bit mods.  Its Alt/GUI and Ctrl/GUI swap
\* options exchange the bits 0x01, 0x04 and 0x08 only; the GUI-off option is
\*   mod &= ~MOD_LGUI; mod &= ~MOD_RGUI;
\* The keymap binds no magic keycode, so no_gui is what the EEPROM holds.
mod_config(mod) ==
  IF no_gui
  THEN BitAnd(BitAnd(mod, 255 - MOD_LGUI), 255 - MOD_RGUI)
  ELSE mod

achordion_streak_chord_timeout(tap_hold_keycode, next_keycode) ==
  IF IS_QK_LAYER_TAP(tap_hold_keycode) THEN 0
  ELSE LET mod == mod_config(QK_MOD_TAP_GET_MODS(tap_hold_keycode))
       IN IF BitAnd(mod, BitOr(MOD_LSFT, MOD_RSFT)) # 0 THEN 0 ELSE 240

achordion_streak_continue_no_lalt(keycode, mods) ==
  IF BitAnd(mods, MOD_MASK_CG) # 0 THEN FALSE
  ELSE LET k1 == IF IS_QK_MOD_TAP(keycode)
                 THEN QK_MOD_TAP_GET_TAP_KEYCODE(keycode) ELSE keycode
           k2 == IF IS_QK_LAYER_TAP(k1)
                 THEN QK_LAYER_TAP_GET_TAP_KEYCODE(k1) ELSE k1
       IN \/ (k2 >= KC_A /\ k2 <= KC_Z)
          \/ k2 \in {KC_DOT, KC_COMMA, KC_QUOTE, KC_SPACE,
                     KC_EXLM, KC_QUES, KC_AT, KC_DLR}

\* achordion_streak_continue: mods is what get_mods() returns
achordion_streak_continue(keycode, mods) ==
  IF BitAnd(mods, BitOr(MOD_MASK_CG, MOD_BIT_LALT)) # 0 THEN FALSE
  ELSE LET k1 == IF IS_QK_MOD_TAP(keycode)
                 THEN QK_MOD_TAP_GET_TAP_KEYCODE(keycode) ELSE keycode
           k2 == IF IS_QK_LAYER_TAP(k1)
                 THEN QK_LAYER_TAP_GET_TAP_KEYCODE(k1) ELSE k1
       IN \/ (k2 >= KC_A /\ k2 <= KC_Z)
          \/ k2 \in {KC_DOT, KC_COMMA, KC_QUOTE, KC_SPACE,
                     KC_EXLM, KC_QUES, KC_AT, KC_DLR}

\* 5-bit modifier sets with at least one modifier
ModTapMods == {m \in 1 .. 31 : m % 16 # 0}

\* the tap-hold keys of layer 0 (keymap.c:23-25); ALL_T(kc) is
\* MT(MOD_LCTL | MOD_LSFT | MOD_LALT | MOD_LGUI, kc)
KeymapTapHold ==
  {MT(MOD_LCTL, KC_A), MT(MOD_LALT, 22), MT(MOD_LGUI, 7), MT(MOD_LSFT, 9),
   MT(MOD_RSFT, 13), MT(MOD_RGUI, 14), MT(MOD_RALT, 15), MT(MOD_RCTL, KC_SCLN),
   MT(15, 25), MT(15, 16), LT(1, 41), LT(2, KC_SPACE)}

\* tap-hold keys Achordion passes to the timeout callback: those of the
\* keymap, and a mod-tap of every modifier set
TapHoldKeycodes ==
  KeymapTapHold \cup {MT(m, KC_SCLN) : m \in ModTapMods}

\* keycodes Achordion passes to the continue callback: the basic keycodes up
\* to KC_SLASH, the shifted symbols of the keymap, C(KC_A), mod-taps,
\* layer-taps, TO(4), TD(DANCE_0) and RGB_SLD
ContinueKeycodes ==
  (0 .. 56)
  \cup {KC_EXLM, KC_AT, 544, KC_DLR, 547, KC_PIPE, KC_DQUO, KC_QUES}
  \cup {260, 20996, 22272, RGB_SLD}
  \cup {MT(m, k) : m \in {MOD_LCTL, MOD_RSFT, 15}, k \in {KC_A, 25, KC_SCLN, KC_SPACE, 30}}
  \cup {LT(l, k) : l \in 1 .. 2, k \in {41, KC_SPACE, KC_Z}}

\* Achordion calls a callback, then uses what it returned (AchordionReturn)
StreakChordTimeout ==
  /\ ach.fn = "none"
  /\ \E thk \in TapHoldKeycodes, next \in {KC_A, KC_SPACE} :
       ach' = [fn |-> "timeout", keycode |-> thk, next |-> next, mods |-> 0,
               timeout |-> achordion_streak_chord_timeout(thk, next),
               continue |-> FALSE]
  /\ UNCHANGED <<no_gui, varsDance, varsRgb, varsRec>>

StreakContinue ==
  /\ ach.fn = "none"
  /\ \E keycode \in ContinueKeycodes, mods \in 0 .. 255 :
       ach' = [fn |-> "continue", keycode |-> keycode, next |-> 0, mods |-> mods,
               timeout |-> 0,
               continue |-> achordion_streak_continue(keycode, mods)]
  /\ UNCHANGED <<no_gui, varsDance, varsRgb, varsRec>>

achIdle == [fn |-> "none", keycode |-> 0, next |-> 0, mods |-> 0,
            timeout |-> 0, continue |-> FALSE]

AchordionReturn ==
  /\ ach.fn # "none"
  /\ ach' = achIdle
  /\ UNCHANGED <<no_gui, varsDance, varsRgb, varsRec>>

\* keymap_config is read from the EEPROM
KeymapConfigLoad ==
  /\ no_gui' = ~no_gui
  /\ UNCHANGED <<ach, varsDance, varsRgb, varsRec>>

InitAch ==
  /\ no_gui = FALSE
  /\ ach = achIdle

NextAch ==
  StreakChordTimeout \/ StreakContinue \/ AchordionReturn \/ KeymapConfigLoad

-----------------------------------------------------------------------------
(* Specifications.  The four groups of hooks share no state, so each is     *)
(* checked under the specification of its own hooks.                        *)

Init == InitDance /\ InitRgb /\ InitRec /\ InitAch

Next == NextDance \/ NextRgb \/ NextRec \/ NextAch

Spec          == Init /\ [][Next]_vars
SpecDance     == Init /\ [][NextDance]_vars
SpecRgb       == Init /\ [][NextRgb]_vars
SpecRecord    == Init /\ [][NextRec]_vars
SpecAchordion == Init /\ [][NextAch]_vars

-----------------------------------------------------------------------------
(* Properties *)

\* C1: after dance_N_finished has classified a dance with count >= 1, the step
\* is SINGLE_TAP for count 1 when interrupted or not pressed and SINGLE_HOLD
\* otherwise; for count 2 it is DOUBLE_SINGLE_TAP when interrupted, else
\* DOUBLE_HOLD when pressed, else DOUBLE_TAP; for every other count it is
\* MORE_TAPS.  The step is always one of 1..6, never 0.
C1_DanceStepClassifies ==
  \A j \in Dances :
    td[j].finished =>
      LET c == td[j].count
          i == td[j].interrupted
          p == td[j].pressed
          s == dance_state[j].step
      IN /\ c >= 1
         /\ s \in 1 .. 6
         /\ (c = 1 /\ (i \/ ~p)) => s = SINGLE_TAP
         /\ (c = 1 /\ ~(i \/ ~p)) => s = SINGLE_HOLD
         /\ (c = 2 /\ i) => s = DOUBLE_SINGLE_TAP
         /\ (c = 2 /\ ~i /\ p) => s = DOUBLE_HOLD
         /\ (c = 2 /\ ~i /\ ~p) => s = DOUBLE_TAP
         /\ (c > 2) => s = MORE_TAPS

\* a double tap that was interrupted while the key was still down
C1_Witness ==
  \E j \in Dances :
    /\ td[j].finished /\ td[j].count = 2 /\ td[j].interrupted /\ td[j].pressed
    /\ dance_state[j].step = DOUBLE_SINGLE_TAP

\* C2: with neither rgb_control nor disable_layer_led set, the hook returns
\* true and applies the overlay of the highest active layer: for layer 1 or 2
\* every LED 0..RGB_MATRIX_LED_COUNT-1 is written exactly once from that
\* layer's ledmap row ((0,0,0) for an all-zero HSV entry, the brightness-scaled
\* colour otherwise); for any other highest layer all LEDs are written (0,0,0)
\* if the matrix flags are LED_FLAG_NONE and no LED is written otherwise.
C2_LayerOverlay ==
  (rgb_ret # "none" /\ ~rgb_control /\ ~disable_layer_led) =>
    LET hi == CHOOSE l \in 0 .. NumLayerBits :
                \/ (layer_state = 0 /\ l = 0)
                \/ (layer_state # 0 /\ 2 ^ l <= layer_state /\ layer_state < 2 ^ (l + 1))
        once == \A i \in Leds : Cardinality({k \in DOMAIN writes : writes[k][1] = i}) = 1
    IN /\ rgb_ret = "true"
       /\ hi \in {1, 2} =>
            /\ Len(writes) = RGB_MATRIX_LED_COUNT
            /\ once
            /\ \A k \in DOMAIN writes :
                 LET i   == writes[k][1]
                     hsv == (IF hi = 1 THEN ledmap_1 ELSE ledmap_2)[i + 1]
                     rgb == hsv_to_rgb(hsv)
                 IN /\ hsv = Black => writes[k][2] = Black
                    /\ hsv # Black =>
                         writes[k][2] = <<(rgb_val * rgb[1]) \div 255,
                                          (rgb_val * rgb[2]) \div 255,
                                          (rgb_val * rgb[3]) \div 255>>
                    /\ led[i] = writes[k][2]
       /\ (hi \notin {1, 2} /\ rgb_flags = LED_FLAG_NONE) =>
            /\ Len(writes) = RGB_MATRIX_LED_COUNT
            /\ once
            /\ \A k \in DOMAIN writes : writes[k][2] = Black
            /\ \A i \in Leds : led[i] = Black
       /\ (hi \notin {1, 2} /\ rgb_flags # LED_FLAG_NONE) => writes = <<>>

\* layers 1 and 2 both active: LED 1 is lit on layer 1 only, LED 32 on layer 2 only
C2_Witness ==
  /\ rgb_ret = "true" /\ layer_state = 6 /\ rgb_val = 255
  /\ Len(writes) = RGB_MATRIX_LED_COUNT
  /\ led[1] = Black /\ led[32] # Black

\* C3: achordion_streak_chord_timeout returns 0 for every layer-tap key and
\* for every mod-tap key whose modifiers include Shift, and 240 for every
\* other mod-tap key, on either hand.
C3_StreakChordTimeout ==
  ach.fn = "timeout" =>
    LET kc    == ach.keycode
        mods  == (kc \div 256) % 32
        shift == (mods \div 2) % 2 = 1
    IN ach.timeout = IF (kc >= 16384 /\ kc <= 20479) \/ shift THEN 0 ELSE 240

\* C4: once dance i has been reset after it finished, neither its base key
\* nor its shifted variant is registered and dance_state[i].step is 0, after
\* any number of cycles and whatever the classification was
C4_ResetClearsRegistration ==
  \A j \in Dances :
    ~td[j].finished =>
      /\ Base(j) \notin registered
      /\ Shifted(j) \notin registered
      /\ dance_state[j].step = 0

\* a DOUBLE_TAP dance (base key registered twice) has just been reset
C4_Witness ==
  /\ last.fn = "reset" /\ last.step = DOUBLE_TAP /\ last.dance = 1
  /\ KC_QUOTE \notin registered
  /\ dance_state[1].step = 0

\* C5: a dance that finished with count n and is not a hold has emitted its
\* base keycode exactly n times (taps of on_dance_N plus taps and registers
\* of dance_N_finished); on_dance_N emits nothing at counts 1 and 2, three
\* taps at count 3 and one tap at every count above 3
C5_EmissionsEqualCount ==
  /\ \A j \in Dances :
       (td[j].finished /\ dance_state[j].step \notin {SINGLE_HOLD, DOUBLE_HOLD})
         => emitted[j] = td[j].count
  /\ last.fn = "on_dance" =>
       LET t == Tap(Base(last.dance))
       IN calls = IF last.count = 3 THEN <<t, t, t>>
                  ELSE IF last.count > 3 THEN <<t>>
                  ELSE <<>>

\* a dance of five taps has finished
C5_Witness ==
  /\ td[0].finished /\ td[0].count = 5
  /\ dance_state[0].step = MORE_TAPS
  /\ emitted[0] = 5

\* C6: when rgb_control or disable_layer_led is set, a call of
\* rgb_matrix_indicators_user leaves every LED colour unchanged, writes no
\* LED and returns false, whatever the layer and the matrix flags
C6_EarlyReturnFrame ==
  [][(rgb_matrix_indicators_user /\ (rgb_control \/ disable_layer_led))
       => (led' = led /\ writes' = <<>> /\ rgb_ret' = "false")]_vars

\* the hook returned false on layer 2 with the flags off, the effect's colour intact
C6_Witness ==
  /\ rgb_ret = "false" /\ disable_layer_led /\ ~rgb_control
  /\ layer_state = 4 /\ rgb_flags = LED_FLAG_NONE
  /\ led[40] = <<255, 255, 255>>

\* C7: process_record_user returns false and calls nothing when
\* process_achordion returned false; otherwise it returns false for RGB_SLD on
\* press and release, calling rgblight_mode(1) on the press only, and returns
\* true for every other keycode without calling rgblight_mode
C7_ProcessRecordUser ==
  rec.fn # "none" =>
    /\ ~rec.achordion =>
         (rec.ret = FALSE /\ rec.mode_calls = <<>> /\ rec.after = rec.before)
    /\ (rec.achordion /\ rec.keycode = SAFE_RANGE /\ rec.pressed) =>
         (rec.ret = FALSE /\ rec.mode_calls = <<1>> /\ rec.after = 1)
    /\ (rec.achordion /\ rec.keycode = SAFE_RANGE /\ ~rec.pressed) =>
         (rec.ret = FALSE /\ rec.mode_calls = <<>> /\ rec.after = rec.before)
    /\ (rec.achordion /\ rec.keycode # SAFE_RANGE) =>
         (rec.ret = TRUE /\ rec.mode_calls = <<>> /\ rec.after = rec.before)

\* RGB_SLD released while another rgblight mode is set
C7_Witness ==
  /\ rec.fn # "none" /\ rec.achordion /\ rec.keycode = SAFE_RANGE /\ ~rec.pressed
  /\ rec.ret = FALSE /\ rec.before = 3 /\ rgblight = 3

\* C8: achordion_streak_continue is false whenever a Ctrl, a GUI or left Alt
\* is held; otherwise it is true exactly when the keycode, a mod-tap or
\* layer-tap replaced by its tap keycode, is a letter KC_A..KC_Z or one of
\* KC_DOT, KC_COMMA, KC_QUOTE, KC_SPACE, KC_EXLM, KC_QUES, KC_AT, KC_DLR
C8_StreakContinue ==
  ach.fn = "continue" =>
    LET kc      == ach.keycode
        held(b) == (ach.mods \div b) % 2 = 1
        blocked == held(1) \/ held(16) \/ held(8) \/ held(128) \/ held(4)
        tapkc   == IF kc >= 8192 /\ kc <= 20479 THEN kc % 256 ELSE kc
    IN ach.continue =
         (/\ ~blocked
          /\ tapkc \in (4 .. 29) \cup {55, 54, 52, 44, 542, 568, 543, 545})

\* a layer-tap of KC_SPACE continues the streak with both Shifts and AltGr held
C8_Witness ==
  /\ ach.fn = "continue" /\ ach.keycode = LT(2, KC_SPACE) /\ ach.mods = 98
  /\ ach.continue = TRUE

\* C9: the dances are isolated: a callback of dance j leaves dance_state[k],
\* the framework state and the registered keys of every other dance k
\* unchanged, passes only dance j's base keycode or its shifted variant to
\* tap_code16, register_code16 and unregister_code16, and every step stays in
\* 0..MORE_TAPS
C9_Isolation ==
  /\ [](\A j \in Dances : dance_state[j].step \in 0 .. MORE_TAPS)
  /\ [](\A n \in DOMAIN calls :
          calls[n][2] \in {Base(last.dance), Shifted(last.dance)})
  /\ [][\A k \in Dances :
          k # last'.dance =>
            /\ dance_state'[k] = dance_state[k]
            /\ td'[k] = td[k]
            /\ (Base(k) \in registered') = (Base(k) \in registered)
            /\ (Shifted(k) \in registered') = (Shifted(k) \in registered)]_vars

\* dance 1 has just been reset while dance 0 is held as DOUBLE_HOLD and dance 2
\* is in the middle of its taps
C9_Witness ==
  /\ last.fn = "reset" /\ last.dance = 1 /\ last.step = DOUBLE_HOLD
  /\ td[0].finished /\ dance_state[0].step = DOUBLE_HOLD
  /\ KC_PIPE \in registered
  /\ td[2].count = 3 /\ ~td[2].finished

====
